---- MODULE Spec2Model ----
(***************************************************************************)
(* GraphDocument (jina/types/document/graph.py): a Document whose chunks   *)
(* are the nodes of a directed multigraph.  The object keeps               *)
(*   chunks               the node sequence (a ChunkArray),                *)
(*   _chunk_id_to_offset  a dict from node id to 0-based offset,           *)
(*   adjacency            None or a scipy coo_matrix (row, col, data),     *)
(*   edge_features        a dict from edge id to a feature set.            *)
(* Python offsets are 0-based; sequences here are 1-based, so the node at  *)
(* offset k is chunks[k + 1].                                              *)
(***************************************************************************)
EXTENDS Integers, Sequences, FiniteSets, TLC

\* ------------------------------------------------------------------ bounds
MaxEdges == 2
MaxInitNodes == 1
MaxQueryEdges == 1
MaxBulkCalls == 1
MaxAnyInitNodes == 2

\* ------------------------------------------------------------------ values
\* The node ids the calls draw from.
Ids == {1, 2, 3}

\* Node records: an id and a content.  Id 1 exists with two contents, so that
\* a call can pass a node whose id is registered but which is another record.
Nodes ==
  {[id |-> i, content |-> "a"] : i \in Ids} \cup {[id |-> 1, content |-> "b"]}

NoNode == [id |-> 0, content |-> "none"]

\* Optional values: None is the empty sequence, a present value v is <<v>>.
None == <<>>
Some(v) == <<v>>

\* The `features` argument of add_edge: None or a dict.
NoFeatures == "None"
FeatureArgs == {NoFeatures, "w5"}

\* ------------------------------------------------------------------ state
VARIABLES
  chunks,               \* self.chunks
  chunk_id_to_offset,   \* self._chunk_id_to_offset
  adjacency,            \* self.adjacency
  edge_features,        \* self.edge_features
  call,                 \* the last call made on the object and how it ended
  pre,                  \* the object's fields right before that call
  edge_calls,           \* the (doc1, doc2) arguments of the add_edge calls so far
  bulk_calls,           \* the number of setter calls made so far
  threads               \* the calls in progress when callers run concurrently

vars ==
  <<chunks, chunk_id_to_offset, adjacency, edge_features, call, pre, edge_calls,
    bulk_calls, threads>>

\* The object's fields as one record.
self ==
  [chunks |-> chunks, chunk_id_to_offset |-> chunk_id_to_offset,
   adjacency |-> adjacency, edge_features |-> edge_features]

\* ------------------------------------------------------------------ helpers
Max(S) == CHOOSE m \in S : \A k \in S : k <= m

\* d[k] = v on a Python dict.
dict_set(d, k, v) ==
  [i \in DOMAIN d \cup {k} |-> IF i = k THEN v ELSE d[i]]

\* self.chunks[k]: the node at 0-based offset k (IndexError modelled as NoNode).
chunk_at(c, k) == IF k >= 0 /\ k < Len(c) THEN c[k + 1] ELSE NoNode

\* Variant: the row and column arrays passed in the wrong order.
coo_matrix_transposed(data, row, col) == [row |-> col, col |-> row, data |-> data]

\* Variant: an entry whose (row, col) is already stored is merged into it.
coo_matrix_merged(data, row, col) ==
  LET n == Len(row)
  IN IF n > 1 /\ \E k \in 1..(n - 1) : row[k] = row[n] /\ col[k] = col[n]
       THEN [row |-> SubSeq(row, 1, n - 1), col |-> SubSeq(col, 1, n - 1),
             data |-> SubSeq(data, 1, n - 1)]
       ELSE [row |-> row, col |-> col, data |-> data]

\* Variant: the entries kept sorted by (row, col), the new last one inserted
\* at its place.
coo_matrix_sorted(data, row, col) ==
  LET n == Len(row)
      before == {k \in 1..(n - 1) :
                   row[k] < row[n] \/ (row[k] = row[n] /\ col[k] <= col[n])}
      p == Cardinality(before)
  IN [row |-> SubSeq(row, 1, p) \o <<row[n]>> \o SubSeq(row, p + 1, n - 1),
      col |-> SubSeq(col, 1, p) \o <<col[n]>> \o SubSeq(col, p + 1, n - 1),
      data |-> data]

\* coo_matrix((data, (row, col))): keeps the entries as given, duplicates included.
coo_matrix(data, row, col) == [row |-> row, col |-> col, data |-> data]

\* len(m) on a scipy sparse matrix: spmatrix.__len__ raises
\* TypeError("sparse matrix length is ambiguous; use getnnz() or shape[0]").
coo_len(m) == [exc |-> "TypeError", value |-> 0]

\* ------------------------------------------------------------------ __init__
\* {chunk.id: offset for offset, chunk in enumerate(self.chunks)}: a later
\* chunk with the same id overwrites the earlier entry.
__init__(node_seq) ==
  [chunks |-> node_seq,
   chunk_id_to_offset |->
     [i \in {node_seq[k].id : k \in DOMAIN node_seq} |->
        Max({k - 1 : k \in {j \in DOMAIN node_seq : node_seq[j].id = i}})],
   adjacency |-> None,
   edge_features |-> <<>>]

\* ------------------------------------------------------------------ add_node
\* Variant: no membership check, every call appends.
add_node_unchecked(g, node) ==
  [g EXCEPT
     !.chunk_id_to_offset = dict_set(@, node.id, Len(g.chunks)),
     !.chunks = Append(@, node)]

\* Variant: the length is read after the append.
add_node_late_offset(g, node) ==
  IF node.id \in DOMAIN g.chunk_id_to_offset
    THEN g
    ELSE [g EXCEPT
            !.chunk_id_to_offset = dict_set(@, node.id, Len(g.chunks) + 1),
            !.chunks = Append(@, node)]

add_node(g, node) ==
  IF node.id \in DOMAIN g.chunk_id_to_offset
    THEN g
    ELSE [g EXCEPT
            !.chunk_id_to_offset = dict_set(@, node.id, Len(g.chunks)),
            !.chunks = Append(@, node)]

\* ------------------------------------------------------------------ add_edge
\* The result is the object after the call and the exception the call ended
\* with ("none" when it returned normally).
\* Variant: only the first endpoint is registered.
register_endpoints_first_only(g, doc1, doc2) == add_node(g, doc1)

\* for doc in [doc1, doc2]: self.add_node(doc)
register_endpoints(g, doc1, doc2) == add_node(add_node(g, doc1), doc2)

add_edge(g, doc1, doc2, features) ==
  LET g2 == register_endpoints(g, doc1, doc2)
      current_adjacency == g2.adjacency
  IN
  IF doc1.id \notin DOMAIN g2.chunk_id_to_offset
       \/ doc2.id \notin DOMAIN g2.chunk_id_to_offset
    THEN [g |-> g2, exc |-> "KeyError"]
    ELSE
      LET doc1_node_offset == g2.chunk_id_to_offset[doc1.id]
          doc2_node_offset == g2.chunk_id_to_offset[doc2.id]
          row == IF current_adjacency # None
                   THEN Append(current_adjacency[1].row, doc1_node_offset)
                   ELSE <<doc1_node_offset>>
          col == IF current_adjacency # None
                   THEN Append(current_adjacency[1].col, doc2_node_offset)
                   ELSE <<doc2_node_offset>>
          data == IF current_adjacency # None
                    THEN Append(current_adjacency[1].data, 1)
                    ELSE <<1>>
          g3 == [g2 EXCEPT !.adjacency = Some(coo_matrix(data, row, col))]
          n == coo_len(g3.adjacency[1])
      IN
      IF features = NoFeatures
        THEN [g |-> g3, exc |-> "none"]
        ELSE IF n.exc # "none"
          THEN [g |-> g3, exc |-> n.exc]
          ELSE [g |-> [g3 EXCEPT !.edge_features = dict_set(@, n.value, features)],
                exc |-> "none"]

\* ------------------------------------------------------------------ queries
num_nodes(g) == Len(g.chunks)

num_edges(g) == IF g.adjacency # None THEN Len(g.adjacency[1].data) ELSE 0

\* zip(adjacency.row, adjacency.col) as a sequence of <<row, col>> pairs.
zip_row_col(m) ==
  [k \in 1..(IF Len(m.row) < Len(m.col) THEN Len(m.row) ELSE Len(m.col)) |->
     <<m.row[k], m.col[k]>>]

\* [f(x) for x in s if p(x)] with f = the node at the pair's column / row.
RECURSIVE out_comprehension(_, _, _)
out_comprehension(pairs, offset, c) ==
  IF pairs = <<>> THEN <<>>
  ELSE LET rest == out_comprehension(Tail(pairs), offset, c)
       IN IF Head(pairs)[1] = offset
            THEN <<chunk_at(c, Head(pairs)[2])>> \o rest
            ELSE rest

RECURSIVE in_comprehension(_, _, _)
in_comprehension(pairs, offset, c) ==
  IF pairs = <<>> THEN <<>>
  ELSE LET rest == in_comprehension(Tail(pairs), offset, c)
       IN IF Head(pairs)[2] = offset
            THEN <<chunk_at(c, Head(pairs)[1])>> \o rest
            ELSE rest

\* Both return Some(list of nodes), or None when the `if` is not taken.
get_incoming_nodes(g, doc) ==
  IF g.adjacency # None /\ doc.id \in DOMAIN g.chunk_id_to_offset
    THEN Some(in_comprehension(zip_row_col(g.adjacency[1]),
                               g.chunk_id_to_offset[doc.id], g.chunks))
    ELSE None

\* Variant: the offset looked up with a default of 0 instead of the `in` test.
get_outgoing_nodes_default_offset(g, doc) ==
  IF g.adjacency # None
    THEN Some(out_comprehension(
                zip_row_col(g.adjacency[1]),
                IF doc.id \in DOMAIN g.chunk_id_to_offset
                  THEN g.chunk_id_to_offset[doc.id] ELSE 0,
                g.chunks))
    ELSE None

\* Variant: the body of get_incoming_nodes pasted unchanged.
get_outgoing_nodes_pasted(g, doc) == get_incoming_nodes(g, doc)

get_outgoing_nodes(g, doc) ==
  IF g.adjacency # None /\ doc.id \in DOMAIN g.chunk_id_to_offset
    THEN Some(out_comprehension(zip_row_col(g.adjacency[1]),
                                g.chunk_id_to_offset[doc.id], g.chunks))
    ELSE None

\* len(out_edges) if out_edges else 0: None and the empty list are falsy.
get_out_degree(g, doc) ==
  LET out_edges == get_outgoing_nodes(g, doc)
  IN IF out_edges # None /\ out_edges[1] # <<>> THEN Len(out_edges[1]) ELSE 0

get_in_degree(g, doc) ==
  LET in_edges == get_incoming_nodes(g, doc)
  IN IF in_edges # None /\ in_edges[1] # <<>> THEN Len(in_edges[1]) ELSE 0

\* list(graph): the pairs the generator yields, or the exception it ends with.
\* self.adjacency.row on None raises AttributeError.
__iter__(g) ==
  IF g.adjacency = None
    THEN [exc |-> "AttributeError", value |-> <<>>]
    ELSE [exc |-> "none",
          value |-> LET z == zip_row_col(g.adjacency[1])
                    IN [k \in DOMAIN z |->
                          <<chunk_at(g.chunks, z[k][1]), chunk_at(g.chunks, z[k][2])>>]]

\* len(graph): self.adjacency.getnnz(); on None raises AttributeError.
__len__(g) ==
  IF g.adjacency = None
    THEN [exc |-> "AttributeError", value |-> 0]
    ELSE [exc |-> "none", value |-> Len(g.adjacency[1].data)]

\* ------------------------------------------------------------------ behaviour
\* Node sequences with pairwise distinct ids the object can be constructed over.
RECURSIVE SeqsUpTo(_, _)
SeqsUpTo(S, n) ==
  IF n = 0 THEN {<<>>}
  ELSE LET shorter == SeqsUpTo(S, n - 1)
       IN shorter \cup {Append(s, x) : s \in shorter, x \in S}

DistinctIds(s) == \A i, j \in DOMAIN s : i # j => s[i].id # s[j].id

InitNodeSeqs == {s \in SeqsUpTo(Nodes, MaxInitNodes) : DistinctIds(s)}

Init ==
  \E s \in InitNodeSeqs :
    /\ chunks = __init__(s).chunks
    /\ chunk_id_to_offset = __init__(s).chunk_id_to_offset
    /\ adjacency = __init__(s).adjacency
    /\ edge_features = __init__(s).edge_features
    /\ call = [op |-> "__init__", doc1 |-> NoNode, doc2 |-> NoNode,
               features |-> NoFeatures, exc |-> "none"]
    /\ pre = __init__(s)
    /\ edge_calls = <<>>
    /\ bulk_calls = 0
    /\ threads = <<>>

Install(g) ==
  /\ chunks' = g.chunks
  /\ chunk_id_to_offset' = g.chunk_id_to_offset
  /\ adjacency' = g.adjacency
  /\ edge_features' = g.edge_features

AddNode ==
  \E node \in Nodes :
    /\ Install(add_node(self, node))
    /\ call' = [op |-> "add_node", doc1 |-> node, doc2 |-> node,
                features |-> NoFeatures, exc |-> "none"]
    /\ pre' = self
    /\ UNCHANGED <<edge_calls, bulk_calls, threads>>

AddEdge ==
  \E doc1, doc2 \in Nodes, features \in FeatureArgs :
    /\ num_edges(self) < MaxEdges
    /\ LET r == add_edge(self, doc1, doc2, features)
       IN /\ Install(r.g)
          /\ call' = [op |-> "add_edge", doc1 |-> doc1, doc2 |-> doc2,
                      features |-> features, exc |-> r.exc]
    /\ pre' = self
    /\ edge_calls' = Append(edge_calls, <<doc1, doc2>>)
    /\ UNCHANGED <<bulk_calls, threads>>

Next == AddNode \/ AddEdge

Spec == Init /\ [][Next]_vars

\* ------------------------------------------------------------------ queries as calls
QueryOps == {"get_out_degree", "get_in_degree", "get_outgoing_nodes", "get_incoming_nodes"}

\* What a query call returns.
query_result(g, op, doc) ==
  CASE op = "get_out_degree" -> get_out_degree(g, doc)
    [] op = "get_in_degree" -> get_in_degree(g, doc)
    [] op = "get_outgoing_nodes" -> get_outgoing_nodes(g, doc)
    [] op = "get_incoming_nodes" -> get_incoming_nodes(g, doc)

\* The exception a query call ends with: self.chunks[...] raises IndexError
\* when a stored row / column value is no offset of the node sequence.
query_exc(g, doc) ==
  IF \/ (get_outgoing_nodes(g, doc) # None
          /\ \E k \in DOMAIN get_outgoing_nodes(g, doc)[1] :
               get_outgoing_nodes(g, doc)[1][k] = NoNode)
     \/ (get_incoming_nodes(g, doc) # None
          /\ \E k \in DOMAIN get_incoming_nodes(g, doc)[1] :
               get_incoming_nodes(g, doc)[1][k] = NoNode)
    THEN "IndexError" ELSE "none"

\* The four queries assign to no field of the object.
Query ==
  \E op \in QueryOps, doc \in Nodes :
    /\ UNCHANGED <<chunks, chunk_id_to_offset, adjacency, edge_features, edge_calls,
                   bulk_calls, threads>>
    /\ call' = [op |-> op, doc1 |-> doc, doc2 |-> doc,
                features |-> NoFeatures, exc |-> query_exc(self, doc)]
    /\ pre' = self

\* add_edge without features, on a graph kept to MaxQueryEdges edges.
AddEdgeNoFeatures ==
  \E doc1, doc2 \in Nodes :
    /\ num_edges(self) < MaxQueryEdges
    /\ LET r == add_edge(self, doc1, doc2, NoFeatures)
       IN /\ Install(r.g)
          /\ call' = [op |-> "add_edge", doc1 |-> doc1, doc2 |-> doc2,
                      features |-> NoFeatures, exc |-> r.exc]
    /\ pre' = self
    /\ edge_calls' = Append(edge_calls, <<doc1, doc2>>)
    /\ UNCHANGED <<bulk_calls, threads>>

NextQuery == AddNode \/ AddEdgeNoFeatures \/ Query

SpecQuery == Init /\ [][NextQuery]_vars

\* ------------------------------------------------------------------ setters
\* Variant: the index rebuilt from the new sequence.
set_nodes_rebuilding(g, value) ==
  [g EXCEPT !.chunks = value,
            !.chunk_id_to_offset = __init__(value).chunk_id_to_offset]

\* nodes.setter: self.chunks = value
set_nodes(g, value) == [g EXCEPT !.chunks = value]

\* adjacency.setter: SparseNdArray(...).value = value
set_adjacency(g, value) == [g EXCEPT !.adjacency = Some(value)]

\* edge_features.setter: Clear() then update(value)
set_edge_features(g, value) == [g EXCEPT !.edge_features = value]

\* The values the setters are called with.
NodeSeqArgs ==
  {<<>>,
   <<[id |-> 2, content |-> "a"]>>,
   <<[id |-> 1, content |-> "b"], [id |-> 3, content |-> "a"]>>}

AdjacencyArgs ==
  {coo_matrix(<<1>>, <<0>>, <<1>>), coo_matrix(<<1, 1>>, <<0, 2>>, <<0, 0>>)}

FeatureDictArgs == {<<>>, [k \in {0} |-> "w5"], [k \in {1, 2} |-> "w5"]}

SetNodes ==
  \E value \in NodeSeqArgs :
    /\ bulk_calls < MaxBulkCalls
    /\ Install(set_nodes(self, value))
    /\ call' = [op |-> "nodes.setter", value |-> value, exc |-> "none"]
    /\ pre' = self
    /\ bulk_calls' = bulk_calls + 1
    /\ UNCHANGED <<edge_calls, threads>>

SetAdjacency ==
  \E value \in AdjacencyArgs :
    /\ bulk_calls < MaxBulkCalls
    /\ Install(set_adjacency(self, value))
    /\ call' = [op |-> "adjacency.setter", value |-> value, exc |-> "none"]
    /\ pre' = self
    /\ bulk_calls' = bulk_calls + 1
    /\ UNCHANGED <<edge_calls, threads>>

SetEdgeFeatures ==
  \E value \in FeatureDictArgs :
    /\ bulk_calls < MaxBulkCalls
    /\ Install(set_edge_features(self, value))
    /\ call' = [op |-> "edge_features.setter", value |-> value, exc |-> "none"]
    /\ pre' = self
    /\ bulk_calls' = bulk_calls + 1
    /\ UNCHANGED <<edge_calls, threads>>

NextBulk == AddNode \/ SetNodes \/ SetAdjacency \/ SetEdgeFeatures

SpecBulk == Init /\ [][NextBulk]_vars

\* ------------------------------------------------------------------ construction
\* Construction over any node sequence, ids repeated or not.
InitAny ==
  \E s \in SeqsUpTo(Nodes, MaxAnyInitNodes) :
    /\ chunks = __init__(s).chunks
    /\ chunk_id_to_offset = __init__(s).chunk_id_to_offset
    /\ adjacency = __init__(s).adjacency
    /\ edge_features = __init__(s).edge_features
    /\ call = [op |-> "__init__", doc1 |-> NoNode, doc2 |-> NoNode,
               features |-> NoFeatures, exc |-> "none"]
    /\ pre = __init__(s)
    /\ edge_calls = <<>>
    /\ bulk_calls = 0
    /\ threads = <<>>

NextConstruct == AddNode \/ AddEdgeNoFeatures

SpecConstruct == InitAny /\ [][NextConstruct]_vars

\* ------------------------------------------------------------------ concurrent callers
\* Two callers on the same object, interleaved between statements.  A caller
\* is at statement `at` of add_node for endpoint `k` (1 or 2), or at a statement
\* of add_edge after the add_node loop (k = 0).
Threads == {1, 2}

Other(t) == CHOOSE u \in Threads : u # t

At(at, k) == [at |-> at, k |-> k]

Started(c) == c.pc # At("check", 1)
Done(c) == c.pc = At("done", 0)
MidCall(c) == Started(c) /\ ~Done(c)
AllDone == \A t \in Threads : Done(threads.calls[t])

\* Line 57: node.id in self._chunk_id_to_offset
add_node_registered(g, node) == node.id \in DOMAIN g.chunk_id_to_offset

\* Variant: the offset is one less than the length.
add_node_index_off_by_one(g, node) ==
  [g EXCEPT !.chunk_id_to_offset = dict_set(@, node.id, Len(g.chunks) - 1)]

\* Line 61: self._chunk_id_to_offset[node.id] = len(self.chunks)
add_node_index(g, node) ==
  [g EXCEPT !.chunk_id_to_offset = dict_set(@, node.id, Len(g.chunks))]

\* Line 62: self.chunks.append(node)
add_node_append(g, node) == [g EXCEPT !.chunks = Append(@, node)]

\* Variant: the adjacency is read again when the new one is built.
add_edge_install_rereading(g, current_adjacency, doc1_node_offset, doc2_node_offset) ==
  [g EXCEPT !.adjacency =
     Some(coo_matrix(
       IF g.adjacency # None THEN Append(g.adjacency[1].data, 1) ELSE <<1>>,
       IF g.adjacency # None
         THEN Append(g.adjacency[1].row, doc1_node_offset) ELSE <<doc1_node_offset>>,
       IF g.adjacency # None
         THEN Append(g.adjacency[1].col, doc2_node_offset) ELSE <<doc2_node_offset>>))]

\* Lines 82-97: build row, col, data from the adjacency read on line 79 and
\* install the new matrix.
add_edge_install(g, current_adjacency, doc1_node_offset, doc2_node_offset) ==
  [g EXCEPT !.adjacency =
     Some(coo_matrix(
       IF current_adjacency # None
         THEN Append(current_adjacency[1].data, 1) ELSE <<1>>,
       IF current_adjacency # None
         THEN Append(current_adjacency[1].row, doc1_node_offset)
         ELSE <<doc1_node_offset>>,
       IF current_adjacency # None
         THEN Append(current_adjacency[1].col, doc2_node_offset)
         ELSE <<doc2_node_offset>>))]

\* The statement after add_node returns for endpoint k.
AfterAddNode(c) ==
  IF c.op = "add_node" THEN At("done", 0)
  ELSE IF c.pc.k = 1 THEN At("check", 2) ELSE At("read", 0)

\* A caller's step: the object becomes g, the caller's record c.
Step(t, g, c) ==
  /\ Install(g)
  /\ threads' =
       [threads EXCEPT
          !.calls[t] = c,
          !.overlapped = @ \/ MidCall(threads.calls[Other(t)]),
          !.stale_read =
            @ \/ (c.pc.at = "offset1"
                  /\ threads.calls[Other(t)].pc.at \in {"offset1", "offset2", "install"})]
  /\ UNCHANGED <<call, pre, edge_calls, bulk_calls>>

NodeCheck(t) ==
  LET c == threads.calls[t]
  IN /\ c.pc.at = "check"
     /\ Step(t, self,
             [c EXCEPT !.pc = IF add_node_registered(self, c.docs[c.pc.k])
                                THEN AfterAddNode(c) ELSE At("index", c.pc.k)])

NodeIndex(t) ==
  LET c == threads.calls[t]
  IN /\ c.pc.at = "index"
     /\ Step(t, add_node_index(self, c.docs[c.pc.k]),
             [c EXCEPT !.pc = At("append", c.pc.k)])

NodeAppend(t) ==
  LET c == threads.calls[t]
  IN /\ c.pc.at = "append"
     /\ Step(t, add_node_append(self, c.docs[c.pc.k]),
             [c EXCEPT !.pc = AfterAddNode(c)])

\* Line 79: current_adjacency = self.adjacency
EdgeRead(t) ==
  LET c == threads.calls[t]
  IN /\ c.pc.at = "read"
     /\ Step(t, self,
             [c EXCEPT !.pc = At("offset1", 0), !.current_adjacency = adjacency])

\* Lines 80 and 81: the offset lookups (KeyError when the id is missing).
EdgeOffset1(t) ==
  LET c == threads.calls[t]
  IN /\ c.pc.at = "offset1"
     /\ Step(t, self,
             IF add_node_registered(self, c.docs[1])
               THEN [c EXCEPT !.pc = At("offset2", 0),
                              !.doc1_node_offset = chunk_id_to_offset[c.docs[1].id]]
               ELSE [c EXCEPT !.pc = At("done", 0), !.exc = "KeyError"])

EdgeOffset2(t) ==
  LET c == threads.calls[t]
  IN /\ c.pc.at = "offset2"
     /\ Step(t, self,
             IF add_node_registered(self, c.docs[2])
               THEN [c EXCEPT !.pc = At("install", 0),
                              !.doc2_node_offset = chunk_id_to_offset[c.docs[2].id]]
               ELSE [c EXCEPT !.pc = At("done", 0), !.exc = "KeyError"])

EdgeInstall(t) ==
  LET c == threads.calls[t]
  IN /\ c.pc.at = "install"
     /\ Step(t, add_edge_install(self, c.current_adjacency,
                                 c.doc1_node_offset, c.doc2_node_offset),
             [c EXCEPT !.pc = At("done", 0)])

NewCall(op, docs) ==
  [op |-> op, docs |-> docs, pc |-> At("check", 1), current_adjacency |-> None,
   doc1_node_offset |-> 0, doc2_node_offset |-> 0,  exc |-> "none"]

\* The (doc1, doc2) pairs the concurrent add_edge calls draw from.
EdgeArgs ==
  LET n(i) == [id |-> i, content |-> "a"]
  IN {<<n(1), n(2)>>, <<n(2), n(3)>>, <<n(3), n(3)>>}

InitRace(op, Args1, Args2) ==
  \E s \in InitNodeSeqs, d1 \in Args1, d2 \in Args2 :
    /\ chunks = __init__(s).chunks
    /\ chunk_id_to_offset = __init__(s).chunk_id_to_offset
    /\ adjacency = __init__(s).adjacency
    /\ edge_features = __init__(s).edge_features
    /\ call = [op |-> "__init__", doc1 |-> NoNode, doc2 |-> NoNode,
               features |-> NoFeatures, exc |-> "none"]
    /\ pre = __init__(s)
    /\ edge_calls = <<>>
    /\ bulk_calls = 0
    /\ threads = [calls |-> [t \in Threads |->
                               NewCall(op, IF t = 1 THEN d1 ELSE d2)],
                  overlapped |-> FALSE, stale_read |-> FALSE]

\* Two concurrent add_node calls.
InitNodeRace == InitRace("add_node", {<<x, x>> : x \in Nodes}, {<<x, x>> : x \in Nodes})

NextNodeRace == \E t \in Threads : NodeCheck(t) \/ NodeIndex(t) \/ NodeAppend(t)

SpecAddNodeRace == InitNodeRace /\ [][NextNodeRace]_vars

\* Two concurrent add_edge calls (features = None).
InitEdgeRace == InitRace("add_edge", EdgeArgs, EdgeArgs)

NextEdgeRace ==
  \E t \in Threads :
    \/ NodeCheck(t) \/ NodeIndex(t) \/ NodeAppend(t)
    \/ EdgeRead(t) \/ EdgeOffset1(t) \/ EdgeOffset2(t) \/ EdgeInstall(t)

SpecAddEdgeRace == InitEdgeRace /\ [][NextEdgeRace]_vars

\* ================================================================== properties
Registered(g, node) == node.id \in DOMAIN g.chunk_id_to_offset

Range(f) == {f[x] : x \in DOMAIN f}

\* C1: NodeIndex is a bijection between the ids of the nodes in the node
\* sequence and the offsets 0..num_nodes-1, and the node stored at offset k is
\* the one whose id maps to k.
C1_NodeIndexBijection ==
  /\ DOMAIN chunk_id_to_offset = {chunks[k].id : k \in DOMAIN chunks}
  /\ Range(chunk_id_to_offset) = 0..(num_nodes(self) - 1)
  /\ Cardinality(DOMAIN chunk_id_to_offset) = num_nodes(self)
  /\ \A i \in DOMAIN chunk_id_to_offset :
       chunk_at(chunks, chunk_id_to_offset[i]).id = i

\* One node constructed over or added by add_node, two added by one add_edge.
C1_Witness ==
  /\ num_nodes(self) = 3
  /\ call.op = "add_edge"
  /\ num_nodes(pre) = 1

\* C2: add_node of a node whose id is already registered raises nothing and
\* changes nothing (node sequence, NodeIndex, adjacency, feature store); after
\* any add_node call the id is registered, so a second call is such a no-op.
C2_DuplicateAddNodeNoOp ==
  call.op = "add_node" =>
    /\ call.exc = "none"
    /\ Registered(self, call.doc1)
    /\ Registered(pre, call.doc1) =>
         /\ self = pre
         /\ num_nodes(self) = num_nodes(pre)
         /\ chunk_id_to_offset[call.doc1.id] = pre.chunk_id_to_offset[call.doc1.id]

\* add_node of another record with a registered id, on a graph with an edge.
C2_Witness ==
  /\ call.op = "add_node"
  /\ Registered(pre, call.doc1)
  /\ call.doc1 \notin Range(chunks)
  /\ adjacency # None

\* The nodes add_edge(doc1, doc2) has to append to the node sequence `g`.
NewEndpoints(g, doc1, doc2) ==
  (IF Registered(g, doc1) THEN <<>> ELSE <<doc1>>)
    \o (IF Registered(g, doc2) \/ doc2.id = doc1.id THEN <<>> ELSE <<doc2>>)

LastTriplet(g) ==
  LET m == g.adjacency[1]
  IN <<m.row[Len(m.row)], m.col[Len(m.col)], m.data[Len(m.data)]>>

\* C3: add_edge never fails on an unregistered endpoint: unregistered
\* endpoints are appended and registered (doc1 before doc2), registered ones
\* keep their offsets, and the triplet stored is (offset(doc1), offset(doc2), 1);
\* add_edge(p, q) on a graph without nodes, p and q distinct, ends with two
\* nodes, one edge and the triplet (0, 1, 1).
C3_AddEdgeRegistersEndpoints ==
  call.op = "add_edge" =>
    /\ call.exc # "KeyError"
    /\ Registered(self, call.doc1) /\ Registered(self, call.doc2)
    /\ chunks = pre.chunks \o NewEndpoints(pre, call.doc1, call.doc2)
    /\ \A i \in DOMAIN pre.chunk_id_to_offset :
         chunk_id_to_offset[i] = pre.chunk_id_to_offset[i]
    /\ adjacency # None
    /\ LastTriplet(self) = <<chunk_id_to_offset[call.doc1.id],
                             chunk_id_to_offset[call.doc2.id], 1>>
    /\ (pre.chunks = <<>> /\ call.doc1.id # call.doc2.id) =>
         /\ num_nodes(self) = 2
         /\ num_edges(self) = 1
         /\ adjacency = Some([row |-> <<0>>, col |-> <<1>>, data |-> <<1>>])

\* add_edge(p, q) on a fresh graph with no nodes.
C3_Witness ==
  /\ call.op = "add_edge"
  /\ pre.chunks = <<>>
  /\ pre.adjacency = None
  /\ call.doc1.id # call.doc2.id

SameEndpoints(c1, c2) == c1[1].id = c2[1].id /\ c1[2].id = c2[2].id

\* C4: every add_edge call raises num_edges by exactly 1, also when the same
\* (source, target) is already stored; two consecutive add_edge calls with the
\* same pair store two triplets with equal row and column, and the out degree
\* of the source is 2 when no other triplet leaves it.
C4_MultiEdgesKept ==
  /\ num_edges(self) = Len(edge_calls)
  /\ call.op = "add_edge" => num_edges(self) = num_edges(pre) + 1
  /\ \A k \in 1..(Len(edge_calls) - 1) :
       SameEndpoints(edge_calls[k], edge_calls[k + 1]) =>
         LET m == adjacency[1]
         IN /\ m.row[k] = m.row[k + 1]
            /\ m.col[k] = m.col[k + 1]
            /\ (\A j \in DOMAIN m.row : m.row[j] = m.row[k] => j \in {k, k + 1})
                 => get_out_degree(self, edge_calls[k][1]) = 2

\* add_edge(a, b) called twice in a row.
C4_Witness ==
  /\ Len(edge_calls) = 2
  /\ SameEndpoints(edge_calls[1], edge_calls[2])
  /\ edge_calls[1][1].id # edge_calls[1][2].id
  /\ call.op = "add_edge"

\* C5: for distinct registered nodes a, b, add_edge(a, b) raises the out degree
\* of a and the in degree of b by 1 and leaves every other degree of every node
\* as it was; with no edges before, out(a) = 1, in(b) = 1 and out(b) = 0.
C5_DegreesAfterAddEdge ==
  (/\ call.op = "add_edge"
   /\ Registered(pre, call.doc1) /\ Registered(pre, call.doc2)
   /\ call.doc1.id # call.doc2.id) =>
    /\ \A n \in Nodes :
         /\ get_out_degree(self, n) =
              get_out_degree(pre, n) + (IF n.id = call.doc1.id THEN 1 ELSE 0)
         /\ get_in_degree(self, n) =
              get_in_degree(pre, n) + (IF n.id = call.doc2.id THEN 1 ELSE 0)
    /\ num_edges(pre) = 0 =>
         /\ get_out_degree(self, call.doc1) = 1
         /\ get_in_degree(self, call.doc2) = 1
         /\ get_out_degree(self, call.doc2) = 0

\* add_edge between two registered nodes of a graph that already has an edge.
C5_Witness ==
  /\ call.op = "add_edge"
  /\ Registered(pre, call.doc1) /\ Registered(pre, call.doc2)
  /\ call.doc1.id # call.doc2.id
  /\ num_edges(pre) = 1
  /\ get_in_degree(self, call.doc1) = 1

\* C6: in every state, the one without edges included, num_edges equals the
\* number of pairs iteration produces and the value of the length protocol.
C6_EdgeCountsAgree ==
  /\ __iter__(self).exc = "none"
  /\ __len__(self).exc = "none"
  /\ num_edges(self) = Len(__iter__(self).value)
  /\ num_edges(self) = __len__(self).value

\* The node stored under the id of `node`.
Stored(g, node) == chunk_at(g.chunks, g.chunk_id_to_offset[node.id])

\* C7: iteration yields one (source, target) pair per add_edge call, in call
\* order, each pair being the stored nodes of the call's endpoints; after
\* add_node(x), add_node(y), add_node(z), add_edge(x, y), add_edge(y, z) there
\* are 3 nodes, 2 edges and iteration yields <<x, y>>, <<y, z>>.
C7_IterationInCallOrder ==
  /\ edge_calls # <<>> =>
       /\ __iter__(self).exc = "none"
       /\ Len(__iter__(self).value) = Len(edge_calls)
       /\ \A k \in DOMAIN edge_calls :
            __iter__(self).value[k] =
              <<Stored(self, edge_calls[k][1]), Stored(self, edge_calls[k][2])>>
  /\ \A x, y, z \in Nodes :
       (chunks = <<x, y, z>> /\ edge_calls = <<<<x, y>>, <<y, z>>>>) =>
         /\ num_nodes(self) = 3
         /\ num_edges(self) = 2
         /\ __iter__(self).value = <<<<x, y>>, <<y, z>>>>

\* The scenario: three nodes x, y, z, then add_edge(x, y), add_edge(y, z).
C7_Witness ==
  /\ Len(chunks) = 3
  /\ edge_calls = <<<<chunks[1], chunks[2]>>, <<chunks[2], chunks[3]>>>>
  /\ call.op = "add_edge"
  /\ num_nodes(pre) = 3

\* The positions of `v` in sequence `s`, and the j-th smallest member of a set.
PositionsOf(s, v) == {k \in DOMAIN s : s[k] = v}
NthSmallest(S, j) == CHOOSE x \in S : Cardinality({y \in S : y < x}) = j - 1

\* C8: for a registered node n of a graph with an edge, get_outgoing_nodes(n)
\* is the nodes at the column offsets of the triplets whose row is offset(n),
\* one per triplet in storage order, and get_incoming_nodes(n) the nodes at the
\* row offsets of the triplets whose column is offset(n).
C8_NeighboursInStorageOrder ==
  adjacency # None =>
    \A n \in Nodes :
      Registered(self, n) =>
        LET m == adjacency[1]
            out == PositionsOf(m.row, chunk_id_to_offset[n.id])
            inc == PositionsOf(m.col, chunk_id_to_offset[n.id])
        IN /\ get_outgoing_nodes(self, n) =
                Some([j \in 1..Cardinality(out) |->
                        chunks[m.col[NthSmallest(out, j)] + 1]])
           /\ get_incoming_nodes(self, n) =
                Some([j \in 1..Cardinality(inc) |->
                        chunks[m.row[NthSmallest(inc, j)] + 1]])

\* A node with two outgoing edges, the first stored one going to the target
\* with the larger offset, and no incoming edge.
C8_Witness ==
  /\ adjacency # None
  /\ \E n \in Nodes :
       /\ Registered(self, n)
       /\ Len(get_outgoing_nodes(self, n)[1]) = 2
       /\ chunk_id_to_offset[get_outgoing_nodes(self, n)[1][1].id]
            > chunk_id_to_offset[get_outgoing_nodes(self, n)[1][2].id]
       /\ get_incoming_nodes(self, n) = Some(<<>>)

\* C9: every row and column value add_edge stores is a valid offset below
\* num_nodes when it is stored, so every stored row and column value is in
\* 0..num_nodes-1.
C9_StoredOffsetsValid ==
  adjacency # None =>
    /\ \A k \in DOMAIN adjacency[1].row :
         adjacency[1].row[k] \in 0..(num_nodes(self) - 1)
    /\ \A k \in DOMAIN adjacency[1].col :
         adjacency[1].col[k] \in 0..(num_nodes(self) - 1)
    /\ call.op = "add_edge" =>
         /\ LastTriplet(self)[1] < num_nodes(self)
         /\ LastTriplet(self)[2] < num_nodes(self)

\* An edge whose endpoints add_edge itself appended, the target at the last offset.
C9_Witness ==
  /\ call.op = "add_edge"
  /\ num_nodes(self) = num_nodes(pre) + 2
  /\ LastTriplet(self)[2] = num_nodes(self) - 1
  /\ num_edges(self) = 2

\* C10: after add_edge(a, b, features=f) with f not None, the feature store
\* maps the edge count after the insertion to f.
C10_FeaturesKeyedByEdgeCount ==
  (call.op = "add_edge" /\ call.features # NoFeatures) =>
    /\ call.exc = "none"
    /\ num_edges(self) \in DOMAIN edge_features
    /\ edge_features[num_edges(self)] = call.features

\* C12: a graph with zero edges (adjacency absent), with any number of nodes,
\* has num_edges 0, an empty feature store, and an iteration that completes
\* normally with no pairs.
C12_NoEdgesIsEmptyGraph ==
  adjacency = None =>
    /\ num_edges(self) = 0
    /\ DOMAIN edge_features = {}
    /\ __iter__(self).exc = "none"
    /\ __iter__(self).value = <<>>

IsPrefix(s, t) == Len(s) <= Len(t) /\ \A k \in DOMAIN s : s[k] = t[k]

\* The stored triplets of `g` as a sequence of <<row, col, data>>.
Triplets(g) ==
  IF g.adjacency = None THEN <<>>
  ELSE [k \in DOMAIN g.adjacency[1].data |->
          <<g.adjacency[1].row[k], g.adjacency[1].col[k], g.adjacency[1].data[k]>>]

\* C17: under add_node and add_edge calls the state is append-only: num_nodes
\* and num_edges never decrease, a registered id keeps its offset, the node at
\* an offset is never replaced, and the triplets before a call are a prefix of
\* the triplets after it.
C17_AppendOnly ==
  /\ num_nodes(pre) <= num_nodes(self)
  /\ num_edges(pre) <= num_edges(self)
  /\ \A i \in DOMAIN pre.chunk_id_to_offset :
       /\ i \in DOMAIN chunk_id_to_offset
       /\ chunk_id_to_offset[i] = pre.chunk_id_to_offset[i]
  /\ IsPrefix(pre.chunks, chunks)
  /\ IsPrefix(Triplets(pre), Triplets(self))
  /\ pre.adjacency # None => adjacency # None

\* An add_edge call on a graph that had an edge, that also appended a node and
\* whose triplet sorts before the stored one.
C17_Witness ==
  /\ call.op = "add_edge"
  /\ num_edges(pre) = 1
  /\ num_nodes(pre) < num_nodes(self)
  /\ Triplets(self)[2][1] < Triplets(self)[1][1]

RECURSIVE SumOver(_, _, _)
SumOver(Op(_, _), g, s) ==
  IF s = <<>> THEN 0 ELSE Op(g, Head(s)) + SumOver(Op, g, Tail(s))

\* C19: the out degrees of the nodes of the node sequence sum to num_edges, and
\* so do the in degrees; a self-loop counts once in each for its node.
C19_DegreeSums ==
  /\ SumOver(get_out_degree, self, chunks) = num_edges(self)
  /\ SumOver(get_in_degree, self, chunks) = num_edges(self)

\* Two edges, one of them a self-loop.
C19_Witness ==
  /\ num_edges(self) = 2
  /\ \E k \in 1..2 : Triplets(self)[k][1] = Triplets(self)[k][2]
  /\ \E k \in 1..2 : Triplets(self)[k][1] # Triplets(self)[k][2]

\* C20: add_edge never overwrites or removes a feature entry: with features
\* None the store is unchanged, with features it gains exactly one entry under
\* a key that was not present, and the number of entries never exceeds num_edges.
C20_FeatureEntriesPerCall ==
  /\ Cardinality(DOMAIN edge_features) <= num_edges(self)
  /\ call.op = "add_edge" =>
       /\ \A k \in DOMAIN pre.edge_features :
            k \in DOMAIN edge_features /\ edge_features[k] = pre.edge_features[k]
       /\ call.features = NoFeatures => edge_features = pre.edge_features
       /\ call.features # NoFeatures =>
            /\ Cardinality(DOMAIN edge_features)
                 = Cardinality(DOMAIN pre.edge_features) + 1
            /\ \E k \in DOMAIN edge_features \ DOMAIN pre.edge_features :
                 edge_features[k] = call.features

\* C13: for a node whose id is not registered, and for every node when there
\* are no edges, the degrees are 0 and the neighbour queries return the absent
\* result; no query raises or changes the node sequence, NodeIndex, adjacency
\* or feature store, so a query never registers its node.
C13_QueriesOnUnknownNodes ==
  /\ \A n \in Nodes :
       (~Registered(self, n) \/ adjacency = None) =>
         /\ get_out_degree(self, n) = 0
         /\ get_in_degree(self, n) = 0
         /\ get_outgoing_nodes(self, n) = None
         /\ get_incoming_nodes(self, n) = None
  /\ call.op \in QueryOps =>
       /\ call.exc = "none"
       /\ self = pre
       /\ (~Registered(pre, call.doc1) \/ pre.adjacency = None) =>
            IF call.op \in {"get_out_degree", "get_in_degree"}
              THEN query_result(self, call.op, call.doc1) = 0
              ELSE query_result(self, call.op, call.doc1) = None

\* A degree query for an unregistered node on a graph with an edge leaving
\* offset 0.
C13_Witness ==
  /\ call.op = "get_out_degree"
  /\ ~Registered(self, call.doc1)
  /\ adjacency # None
  /\ adjacency[1].row[1] = 0

\* C11: every key present in the feature store is a valid edge identifier, the
\* position of a stored triplet: 0 <= key < num_edges.
C11_FeatureKeysAreEdgeIds ==
  \A k \in DOMAIN edge_features : 0 <= k /\ k < num_edges(self)

IdsOf(s) == {s[k].id : k \in DOMAIN s}

\* C16: the nodes setter replaces the node sequence and leaves NodeIndex, the
\* adjacency and the feature store as they were: ids of the old sequence stay
\* registered at their offsets, ids only in the new sequence are not
\* registered; add_node of an unregistered node that is in the node sequence
\* appends it a second time, add_node of a registered node that is not in the
\* node sequence is skipped.
C16_NodesSetterKeepsIndex ==
  /\ call.op = "nodes.setter" =>
       /\ chunks = call.value
       /\ chunk_id_to_offset = pre.chunk_id_to_offset
       /\ adjacency = pre.adjacency
       /\ edge_features = pre.edge_features
       /\ \A n \in Range(chunks) :
            n.id \notin IdsOf(pre.chunks) /\ ~Registered(pre, n) => ~Registered(self, n)
  /\ call.op = "add_node" =>
       /\ (call.doc1 \in Range(pre.chunks) /\ ~Registered(pre, call.doc1)) =>
            chunks = Append(pre.chunks, call.doc1)
       /\ (call.doc1.id \notin IdsOf(pre.chunks) /\ Registered(pre, call.doc1)) =>
            self = pre

\* After the setter call: add_node of a node of the new sequence appended it a
\* second time, while an id of the old sequence is still registered.
C16_Witness ==
  /\ bulk_calls = 1
  /\ call.op = "add_node"
  /\ call.doc1 \in Range(pre.chunks)
  /\ ~Registered(pre, call.doc1)
  /\ Cardinality({k \in DOMAIN chunks : chunks[k] = call.doc1}) = 2
  /\ \E i \in DOMAIN pre.chunk_id_to_offset : i \notin IdsOf(pre.chunks)

\* C18: construction maps each node id to its enumeration position, and
\* construction over a sequence with a repeated id fails instead of giving an
\* index with fewer entries than the node sequence has nodes.
C18_ConstructionRejectsDuplicates ==
  (call.op = "__init__" /\ call.exc = "none") =>
    /\ DistinctIds(chunks)
    /\ Cardinality(DOMAIN chunk_id_to_offset) = num_nodes(self)
    /\ \A k \in DOMAIN chunks : chunk_id_to_offset[chunks[k].id] = k - 1

\* Two different ids mapped to the same offset.
Collision(g) ==
  \E i, j \in DOMAIN g.chunk_id_to_offset :
    i # j /\ g.chunk_id_to_offset[i] = g.chunk_id_to_offset[j]

ThreadNode(t) == threads.calls[t].docs[1]

\* C14: add_node is not atomic.  Two ids are mapped to the same offset only
\* when the two add_node calls overlapped; when one call ran after the other
\* the object is the one the two calls give in that order.  (The colliding
\* state itself is C14_Witness.)
C14_AddNodeRace ==
  /\ Collision(self) => threads.overlapped
  /\ (AllDone /\ ~threads.overlapped) =>
       /\ C1_NodeIndexBijection
       /\ self \in {add_node(add_node(pre, ThreadNode(1)), ThreadNode(2)),
                    add_node(add_node(pre, ThreadNode(2)), ThreadNode(1))}

\* Both calls returned, their ids are distinct and were not registered, and
\* both ids are mapped to the same offset.
C14_Witness ==
  /\ AllDone
  /\ ThreadNode(1).id # ThreadNode(2).id
  /\ ~Registered(pre, ThreadNode(1)) /\ ~Registered(pre, ThreadNode(2))
  /\ chunk_id_to_offset[ThreadNode(1).id] = chunk_id_to_offset[ThreadNode(2).id]
  /\ num_nodes(self) = num_nodes(pre) + 2

\* C15: add_edge reads the whole adjacency and installs a rebuilt one.  When
\* both calls read the adjacency before either installed, the later install
\* overwrites the earlier: num_edges grew by 1 and one edge is lost; otherwise
\* it grew by 2.
C15_AddEdgeRace ==
  /\ threads.stale_read => threads.overlapped
  /\ AllDone =>
       /\ \A t \in Threads : threads.calls[t].exc = "none"
       /\ num_edges(self) = num_edges(pre) + (IF threads.stale_read THEN 1 ELSE 2)
       /\ \A k \in DOMAIN Triplets(self) :
            \E t \in Threads :
              Triplets(self)[k] = <<threads.calls[t].doc1_node_offset,
                                    threads.calls[t].doc2_node_offset, 1>>

\* Both calls returned, for different edges, and only one edge is stored.
C15_Witness ==
  /\ AllDone
  /\ threads.stale_read
  /\ threads.calls[1].docs # threads.calls[2].docs
  /\ num_edges(self) = num_edges(pre) + 1

====
